---- MODULE Spec2Model ----
(***************************************************************************)
(* Model of request_cert.py: a sequential pipeline that obtains an OAuth   *)
(* token, validates a domain with the CA, fetches a DNS challenge value,   *)
(* polls public DNS for the TXT record, orders the certificate and writes  *)
(* two PEM files.  Every HTTP call, DNS lookup and file operation is an    *)
(* interaction with the environment, whose answer is drawn from a small    *)
(* set.                                                                    *)
(***************************************************************************)
EXTENDS Integers, Sequences, FiniteSets, TLC

VARIABLES
    pc,            \* position of the script: the stage about to run
    exitcode,      \* -1 while running, else the process exit status (-2:
                   \* the process was ended by SIGINT)
    creds,         \* CC_CLIENT_ID and CC_CLIENT_SECRET are both non-empty
    now,           \* time.time() read by token_handling at line 70
    cache,         \* the file token.json
    token,         \* the value main binds to `token` (line 358)
    bearers,       \* tokens sent in an Authorization header of a CA call
    tokenReqs,     \* POSTs sent to the token endpoint
    validateReqs,  \* POSTs sent to ValidateName
    dnsDataReqs,   \* POSTs sent to DNSData
    orderReqs,     \* POSTs sent to Order
    lookups,       \* DNS TXT queries issued
    tick,          \* parity of the number of DNS TXT queries issued
    interrupts,    \* KeyboardInterrupts caught by the except of line 235
                   \* after a lookup had returned records
    validated,     \* cc_validate_name returned (domain qualified)
    txt_value,     \* the challenge value returned by cc_get_dns_data
    found,         \* verify_dns_record's local `found`
    accurate,      \* verify_dns_record's local `accurate`
    dns_answers,   \* the answer of the lookup that returned records
    mismatchObserved, \* history: some lookup returned an answer none of
                   \* whose records equals the quoted challenge
    cert_output,   \* the result of cc_request_cert
    certFile,      \* <fqdn>_cert.pem
    chainFile      \* <fqdn>_cert-chained.pem

vars == <<pc, exitcode, creds, now, cache, token, bearers, tokenReqs,
          validateReqs, dnsDataReqs, orderReqs, lookups, tick, interrupts,
          validated, txt_value, found, accurate, dns_answers, mismatchObserved,
          cert_output, certFile, chainFile>>

----------------------------------------------------------------------------
(* Bounds of the model *)

\* the clock read at line 70 ranges over 0..MaxNow
MaxNow == 0
\* seconds that may pass between line 70 and line 105
MaxDelay == 1
\* request counters stop counting at MaxCount
MaxCount == 2
\* the lookup counter stops counting at MaxLookups (the loop itself goes on)
MaxLookups == 2
\* TXT records in one DNS answer
MaxRecords == 2
\* times Ctrl-C is pressed while the script handles an answer
MaxInterrupts == 1

(* Program constants *)

\* time.time() + 30
Grace == 30

\* Python's None
None == "None"
\* a key absent from a JSON object
Missing == "Missing"

\* characters
DQ == "\""
SP == " "
LF == "\n"

\* access tokens the token endpoint may issue
Tokens == {"tokB"}
\* expires_in values the token endpoint may return
ExpiresIn == {3600}
\* challenge values (strings, as sequences of characters)
TxtStrings == {<<"a">>, <<"b">>}
\* TXT rdata: one or more character-strings
Rdatas == {<< <<"a">> >>, << <<"b">> >>, << <<"a">>, <<"b">> >>}
\* PEM texts
PemTexts == {<<"c">>, <<"i">>}
\* a JSON value that is not a string (null): file.write raises TypeError
NoText == <<None>>
\* values of Fulfillment.Certificate and Fulfillment.Intermediate
PemValues == PemTexts \cup {NoText}

Answers == UNION {[1..n -> Rdatas] : n \in 1..MaxRecords}

Bump(n, max) == IF n < max THEN n + 1 ELSE n

----------------------------------------------------------------------------
(* Files *)

AbsentFile == [exists |-> FALSE, data |-> <<>>, writes |-> 0]
OldFile == [exists |-> TRUE, data |-> <<"o">>, writes |-> 0]

AbsentCache == [kind |-> "absent", access_token |-> Missing, expires_at |-> 0]
BadCache == [kind |-> "badjson", access_token |-> Missing, expires_at |-> 0]

\* token.json as the user may find it when the script starts
InitialCaches ==
    {AbsentCache, BadCache} \cup
    {[kind |-> "record", access_token |-> t, expires_at |-> e] :
        t \in {"tokA"}, e \in (Grace - 1)..(Grace + MaxNow + 1)}

NoOutput == [ok |-> FALSE, signed_cert |-> <<>>, intermediate |-> <<>>]

----------------------------------------------------------------------------
(* Pure parts of the code *)

\* the comparison of line 73 turned round
TokenValidInverted(expires_at, t) == expires_at < t + Grace

\* line 73: token_file['expires_at'] > time.time() + 30
TokenValid(expires_at, t) == expires_at > t + Grace

\* line 105: int(json_response['expires_in'] + time.time())
TokenExpiration(expires_in, t) == expires_in + t

\* line 228: str(rdata) of a TXT record: every character-string in double
\* quotes, the strings separated by one space
RECURSIVE StrRdataFrom(_, _)
StrRdataFrom(rdata, i) ==
    IF i > Len(rdata) THEN <<>>
    ELSE (IF i > 1 THEN <<SP>> ELSE <<>>) \o <<DQ>> \o rdata[i] \o <<DQ>>
         \o StrRdataFrom(rdata, i + 1)

StrRdata(rdata) == StrRdataFrom(rdata, 1)

\* line 230: "\"{}\"".format(txt_value)
Expected(txt) == <<DQ>> \o txt \o <<DQ>>

\* lines 226-233: the for loop assigns accurate anew for every record
RECURSIVE ForRdata(_, _, _, _)
ForRdata(answers, i, txt, acc) ==
    IF i > Len(answers) THEN acc
    ELSE ForRdata(answers, i + 1, txt, StrRdata(answers[i]) = Expected(txt))

Accurate(answers, txt, acc) == ForRdata(answers, 1, txt, acc)

\* some record of the answer, rendered by str(), equals the quoted challenge
AnswerMatches(answers, txt) ==
    \E i \in 1..Len(answers) : StrRdata(answers[i]) = Expected(txt)

\* lines 240-245: return True, or exit(1)
VerifyNext(acc) == IF acc THEN "order" ELSE "exit"

\* lines 214, 235-238: found is False and the while loop goes round again,
\* whatever the number n of lookups made so far
LookupFailedNext(n) == "verify"

\* line 302: the values written to <fqdn>_cert.pem, in order
CertContents(signed_cert) == <<signed_cert>>

\* lines 313-315 with the two texts written in the other order
ChainedSwapped(signed_cert, intermediate) ==
    <<intermediate, <<LF>>, signed_cert>>

\* lines 313-315: the values written to <fqdn>_cert-chained.pem, in order
ChainedContents(signed_cert, intermediate) ==
    <<signed_cert, <<LF>>, intermediate>>

\* exit(1) on every failure path, exit(0) at line 384; an uncaught exception
\* other than KeyboardInterrupt also ends the interpreter with status 1
ExitStatus(next) ==
    IF next = "exit" THEN 1 ELSE IF next = "done" THEN 0 ELSE -1

----------------------------------------------------------------------------
(* Answers of the environment.  status 0 stands for requests.post raising  *)
(* (no response object is bound to r).                                     *)

TokenResponses ==
    {[status |-> 0, body |-> "none", access_token |-> None, expires_in |-> 0]}
    \cup {[status |-> s, body |-> "nojson", access_token |-> None, expires_in |-> 0] :
            s \in {400, 500}}
    \cup {[status |-> 200, body |-> b, access_token |-> None, expires_in |-> 0] :
            b \in {"nojson", "nokeys"}}
    \cup {[status |-> 200, body |-> "ok", access_token |-> t, expires_in |-> e] :
            t \in Tokens, e \in ExpiresIn}

ValidateResponses ==
    {[status |-> 0, body |-> "none"]}
    \cup [status : {200, 500},
          body : {"nojson", "nokeys", "fail", "unqualified", "qualified"}]

DnsDataResponses ==
    {[status |-> 0, body |-> "none", DNSValue |-> <<>>]}
    \cup {[status |-> s, body |-> b, DNSValue |-> <<>>] :
            s \in {200, 500}, b \in {"nojson", "nokeys"}}
    \cup {[status |-> s, body |-> "value", DNSValue |-> v] :
            s \in {200, 500}, v \in TxtStrings}

OrderResponses ==
    {[status |-> 0, body |-> "none", Certificate |-> <<>>, Intermediate |-> <<>>]}
    \cup {[status |-> s, body |-> b, Certificate |-> <<>>, Intermediate |-> <<>>] :
            s \in {200, 500},
            b \in {"nojson", "nokeys", "fail", "nofulfillment"}}
    \cup {[status |-> s, body |-> "ok", Certificate |-> c, Intermediate |-> i] :
            s \in {200, 500}, c \in PemValues, i \in PemValues}

\* a file operation succeeds, raises at open, raises at write or close, or
\* is cut short by a KeyboardInterrupt
IoOutcomes == {"ok", "openfail", "writefail", "interrupt"}

\* an uncaught KeyboardInterrupt ends the process by SIGINT; exit(1) and
\* any other uncaught exception give status 1
FailStatus(io) == IF io = "interrupt" THEN -2 ELSE 1

\* lines 95-121: the outcome of the token request
TokenNext(r) ==
    IF r.status = 0 THEN "exit"            \* line 115 raises: r is unbound
    ELSE IF r.status >= 400 THEN "exit"    \* raise_for_status, lines 115-121
    ELSE IF r.body # "ok" THEN "exit"      \* json.loads or a key lookup raises
    ELSE "validate"

\* lines 142-160 with the request sent again after a failure
ValidateNextRetries(r) ==
    IF r.status # 0 /\ r.body = "qualified" THEN "dnsdata" ELSE "validate"

\* lines 142-160: the HTTP status is never looked at
ValidateNext(r) ==
    IF r.status = 0 THEN "exit"
    ELSE IF r.body \in {"nojson", "nokeys"} THEN "exit"
    ELSE IF r.body = "fail" THEN "exit"
    ELSE IF r.body = "qualified" THEN "dnsdata"
    ELSE "exit"

\* lines 183-199
DnsDataNext(r) ==
    IF r.status = 0 THEN "exit"            \* line 198 raises: r is unbound
    ELSE IF r.body = "value" THEN "prompt"
    ELSE "exit"

\* lines 268-291
OrderNext(r) ==
    IF r.status = 0 THEN "exit"
    ELSE IF r.body \in {"nojson", "nokeys"} THEN "exit"
    ELSE IF r.body = "fail" THEN "exit"
    ELSE IF r.body = "ok" THEN "dump"
    ELSE "exit"                            \* json['Fulfillment'] raises

----------------------------------------------------------------------------
(* The state when the interpreter starts the script *)

Init ==
    /\ pc = "start"
    /\ exitcode = -1
    /\ creds = FALSE
    /\ now \in 0..MaxNow
    /\ cache \in InitialCaches
    /\ token = None
    /\ bearers = {}
    /\ tokenReqs = 0
    /\ validateReqs = 0
    /\ dnsDataReqs = 0
    /\ orderReqs = 0
    /\ lookups = 0
    /\ tick = 0
    /\ interrupts = 0
    /\ validated = FALSE
    /\ txt_value = NoText       \* not bound yet
    /\ found = FALSE
    /\ accurate = FALSE         \* not bound until a lookup returns records
    /\ dns_answers = <<>>
    /\ mismatchObserved = FALSE
    /\ cert_output = NoOutput
    /\ certFile \in {AbsentFile, OldFile}
    /\ chainFile \in {AbsentFile, OldFile}

\* lines 49-58: config.get raises on a missing option (status 1);
\* line 340: parse_args() prints the help and exits 0 on -h, and exits 2 on
\* missing or unknown arguments; lines 353-354: reading the CSR may raise
StartupStatus(cfg, args, csrReadable) ==
    IF cfg = "missing" THEN 1
    ELSE IF args = "help" THEN 0
    ELSE IF args = "usage" THEN 2
    ELSE IF ~csrReadable THEN 1
    ELSE -1

\* lines 49-58 and 327-354: the config file is read when the module loads,
\* then the command line is parsed, then the CSR file is read
Startup ==
    /\ pc = "start"
    /\ \E cfg \in {"missing", "empty", "ok"}, args \in {"ok", "help", "usage"},
          csrReadable \in BOOLEAN :
         LET status == StartupStatus(cfg, args, csrReadable)
         IN /\ pc' = IF status = -1 THEN "token" ELSE "exit"
            /\ exitcode' = status
            /\ creds' = (cfg = "ok")
    /\ UNCHANGED <<now, cache, token, bearers, tokenReqs, validateReqs,
                   dnsDataReqs, orderReqs, lookups, tick, interrupts,
                   validated, txt_value, found, accurate, dns_answers,
                   mismatchObserved, cert_output, certFile, chainFile>>

\* lines 65-80: token.json exists.  json.load or a key lookup may raise (a
\* file that is not JSON, or a JSON object without the keys read); a
\* token that is not valid any more leaves the if without a return, and the
\* else branch of line 82 belongs to the isfile test, so the function ends
\* and returns None
TokenFromCache ==
    /\ pc = "token"
    /\ cache.kind # "absent"
    /\ LET valid == cache.kind = "record" /\ TokenValid(cache.expires_at, now)
           next == IF cache.kind = "badjson" THEN "exit"
                   ELSE IF valid /\ cache.access_token = Missing THEN "exit"
                   ELSE "validate"
       IN /\ pc' = next
          /\ exitcode' = ExitStatus(next)
          /\ token' = IF next = "validate" /\ valid THEN cache.access_token
                      ELSE None
    /\ UNCHANGED <<creds, now, cache, bearers, tokenReqs, validateReqs,
                   dnsDataReqs, orderReqs, lookups, tick, interrupts,
                   validated, txt_value, found, accurate, dns_answers,
                   mismatchObserved, cert_output, certFile, chainFile>>

\* lines 82-121: no token.json.  Opening token.json for writing may fail
\* (the file stays absent) and so may the write (the file is left truncated);
\* except Exception does not catch a KeyboardInterrupt: one raised once the
\* request has been sent ends the process by SIGINT, with token.json
\* untouched (lines 96-106), truncated (line 108) or completely written
\* (line 110)
TokenAcquire ==
    /\ pc = "token"
    /\ cache.kind = "absent"
    /\ IF ~creds
       THEN /\ pc' = "exit"
            /\ exitcode' = 1
            /\ UNCHANGED <<cache, token, tokenReqs>>
       ELSE \E r \in TokenResponses, d \in 0..MaxDelay, io \in IoOutcomes :
              LET got == TokenNext(r) = "validate"
                  next == IF got /\ io = "ok" THEN "validate" ELSE "exit"
                  token_cache ==
                      [kind |-> "record", access_token |-> r.access_token,
                       expires_at |-> TokenExpiration(r.expires_in, now + d)]
              IN /\ tokenReqs' = Bump(tokenReqs, MaxCount)
                 /\ cache' \in
                       IF ~got \/ io = "openfail" THEN {cache}
                       ELSE IF io = "writefail" THEN {BadCache}
                       ELSE IF io = "interrupt"
                            THEN {cache, BadCache, token_cache}
                       ELSE {token_cache}
                 /\ token' = IF next = "validate" THEN r.access_token ELSE None
                 /\ pc' = next
                 /\ exitcode' = IF next = "validate" THEN -1
                                ELSE FailStatus(io)
    /\ UNCHANGED <<creds, now, bearers, validateReqs, dnsDataReqs, orderReqs,
                   lookups, tick, interrupts, validated, txt_value, found,
                   accurate, dns_answers, mismatchObserved, cert_output,
                   certFile, chainFile>>

\* lines 124-160.  killed: a KeyboardInterrupt raised once the request has
\* been sent passes "except Exception" and ends the process by SIGINT
CcValidateName ==
    /\ pc = "validate"
    /\ \E r \in ValidateResponses, killed \in BOOLEAN :
         LET next == IF killed THEN "exit" ELSE ValidateNext(r)
         IN /\ validateReqs' = Bump(validateReqs, MaxCount)
            /\ bearers' = bearers \cup {token}
            /\ validated' = (next = "dnsdata")
            /\ pc' = next
            /\ exitcode' = IF killed THEN -2 ELSE ExitStatus(next)
    /\ UNCHANGED <<creds, now, cache, token, tokenReqs, dnsDataReqs,
                   orderReqs, lookups, tick, interrupts, txt_value, found,
                   accurate, dns_answers, mismatchObserved, cert_output,
                   certFile, chainFile>>

\* lines 163-199.  killed: a KeyboardInterrupt raised once the request has
\* been sent passes "except Exception" and ends the process by SIGINT
CcGetDnsData ==
    /\ pc = "dnsdata"
    /\ \E r \in DnsDataResponses, killed \in BOOLEAN :
         LET next == IF killed THEN "exit" ELSE DnsDataNext(r)
         IN /\ dnsDataReqs' = Bump(dnsDataReqs, MaxCount)
            /\ bearers' = bearers \cup {token}
            /\ txt_value' = IF next = "prompt" THEN r.DNSValue ELSE txt_value
            /\ pc' = next
            /\ exitcode' = IF killed THEN -2 ELSE ExitStatus(next)
    /\ UNCHANGED <<creds, now, cache, token, tokenReqs, validateReqs,
                   orderReqs, lookups, tick, interrupts, validated, found,
                   accurate, dns_answers, mismatchObserved, cert_output,
                   certFile, chainFile>>

\* line 369: input() returns when the user presses Enter and raises EOFError
\* when standard input is closed
PressEnter ==
    /\ pc = "prompt"
    /\ \E eof \in BOOLEAN :
         LET next == IF eof THEN "exit" ELSE "verify"
         IN /\ pc' = next
            /\ exitcode' = ExitStatus(next)
    /\ UNCHANGED <<creds, now, cache, token, bearers, tokenReqs, validateReqs,
                   dnsDataReqs, orderReqs, lookups, tick, interrupts,
                   validated, txt_value, found, accurate, dns_answers,
                   mismatchObserved, cert_output, certFile, chainFile>>

\* lines 214-219, 235-238: the query raises (NXDOMAIN, NoAnswer, a timeout,
\* a KeyboardInterrupt during the query)
DnsLookupRaises ==
    /\ pc = "verify"
    /\ LET next == LookupFailedNext(lookups)
       IN /\ lookups' = Bump(lookups, MaxLookups)
          /\ tick' = 1 - tick
          /\ found' = FALSE
          /\ pc' = next
          /\ exitcode' = ExitStatus(next)
    /\ UNCHANGED <<creds, now, cache, token, bearers, tokenReqs, validateReqs,
                   dnsDataReqs, orderReqs, interrupts, validated, txt_value,
                   accurate, dns_answers, mismatchObserved, cert_output,
                   certFile, chainFile>>

\* lines 214-224: the query returns records (an answer is never empty: the
\* resolver raises NoAnswer instead); found is set and the script waits in
\* time.sleep(3)
DnsLookupAnswers ==
    /\ pc = "verify"
    /\ \E a \in Answers :
         /\ lookups' = Bump(lookups, MaxLookups)
         /\ tick' = 1 - tick
         /\ found' = TRUE
         /\ dns_answers' = a
         /\ mismatchObserved' =
                (mismatchObserved \/ ~AnswerMatches(a, txt_value))
         /\ pc' = "found"
    /\ UNCHANGED <<exitcode, creds, now, cache, token, bearers, tokenReqs,
                   validateReqs, dnsDataReqs, orderReqs, interrupts,
                   validated, txt_value, accurate, cert_output, certFile,
                   chainFile>>

\* lines 224-233: the wait is over and the for loop compares the records;
\* the try block ends with found = True
DnsCompare ==
    /\ pc = "found"
    /\ accurate' = Accurate(dns_answers, txt_value, accurate)
    /\ pc' = "compared"
    /\ UNCHANGED <<exitcode, creds, now, cache, token, bearers, tokenReqs,
                   validateReqs, dnsDataReqs, orderReqs, lookups, tick,
                   interrupts, validated, txt_value, found, dns_answers,
                   mismatchObserved, cert_output, certFile, chainFile>>

\* lines 214, 240-245: found is True, so the while loop ends (outside the
\* try) and the function returns True or calls exit(1)
VerifyReturn ==
    /\ pc = "compared"
    /\ LET next == VerifyNext(accurate)
       IN /\ pc' = next
          /\ exitcode' = ExitStatus(next)
    /\ UNCHANGED <<creds, now, cache, token, bearers, tokenReqs, validateReqs,
                   dnsDataReqs, orderReqs, lookups, tick, interrupts,
                   validated, txt_value, found, accurate, dns_answers,
                   mismatchObserved, cert_output, certFile, chainFile>>

\* lines 220-238: a KeyboardInterrupt raised inside the try after the query
\* has returned, in time.sleep(3) or in the for loop after k of the records
\* have been compared, is caught by the bare except, which sets found to
\* False; the loop goes round again.  At most MaxInterrupts interrupts
\* arrive there in a run
DnsInterrupted ==
    /\ pc = "found"
    /\ interrupts < MaxInterrupts
    /\ interrupts' = interrupts + 1
    /\ \E k \in 0..Len(dns_answers) :
         accurate' = Accurate(SubSeq(dns_answers, 1, k), txt_value, accurate)
    /\ LET next == LookupFailedNext(lookups)
       IN /\ found' = FALSE
          /\ pc' = next
          /\ exitcode' = ExitStatus(next)
    /\ UNCHANGED <<creds, now, cache, token, bearers, tokenReqs, validateReqs,
                   dnsDataReqs, orderReqs, lookups, tick, validated,
                   txt_value, dns_answers, mismatchObserved, cert_output,
                   certFile, chainFile>>

\* lines 248-291: int(cc_cert_validity_period) raises before the request is
\* sent when the validity period is not a number.  killed: a
\* KeyboardInterrupt raised once the request has been sent passes "except
\* Exception" and ends the process by SIGINT
CcRequestCert ==
    /\ pc = "order"
    /\ \E validity \in {"int", "bad"}, r \in OrderResponses,
          killed \in BOOLEAN :
         IF validity = "bad"
         THEN /\ pc' = "exit"
              /\ exitcode' = 1
              /\ UNCHANGED <<bearers, orderReqs, cert_output>>
         ELSE LET next == IF killed THEN "exit" ELSE OrderNext(r)
              IN /\ orderReqs' = Bump(orderReqs, MaxCount)
                 /\ bearers' = bearers \cup {token}
                 /\ cert_output' =
                        IF next = "dump"
                        THEN [ok |-> TRUE, signed_cert |-> r.Certificate,
                              intermediate |-> r.Intermediate]
                        ELSE cert_output
                 /\ pc' = next
                 /\ exitcode' = IF killed THEN -2 ELSE ExitStatus(next)
    /\ UNCHANGED <<creds, now, cache, token, tokenReqs, validateReqs,
                   dnsDataReqs, lookups, tick, interrupts, validated,
                   txt_value, found, accurate, dns_answers, mismatchObserved,
                   certFile, chainFile>>

\* the text of the values written before file.write raises on a value
\* that is not a string
RECURSIVE WrittenFrom(_, _)
WrittenFrom(parts, i) ==
    IF i > Len(parts) \/ parts[i] = NoText THEN <<>>
    ELSE parts[i] \o WrittenFrom(parts, i + 1)

Written(parts) == WrittenFrom(parts, 1)

\* open, every write and close succeed
WriteOk(io, parts) ==
    io = "ok" /\ \A i \in 1..Len(parts) : parts[i] # NoText

\* open(name, "w") and the writes that follow: the states the file may be
\* left in.  A failed open leaves the file alone; open truncates, and a
\* failed write or close leaves any prefix of the text written so far
WriteFile(file, io, parts) ==
    IF io = "openfail" THEN {file}
    ELSE IF io = "ok"
         THEN {[exists |-> TRUE, data |-> Written(parts),
                writes |-> file.writes + 1]}
    ELSE {[exists |-> TRUE, data |-> SubSeq(Written(parts), 1, k),
           writes |-> file.writes + 1] : k \in 0..Len(Written(parts))}
         \cup (IF io = "interrupt" THEN {file} ELSE {})

\* lines 294-322 and 383-384
DumpCert ==
    /\ pc = "dump"
    /\ \E io1 \in IoOutcomes, io2 \in IoOutcomes :
         LET cert == CertContents(cert_output.signed_cert)
             chain == ChainedContents(cert_output.signed_cert,
                                      cert_output.intermediate)
             next == IF WriteOk(io1, cert) /\ WriteOk(io2, chain)
                     THEN "done" ELSE "exit"
         IN /\ certFile' \in WriteFile(certFile, io1, cert)
            /\ IF WriteOk(io1, cert)
               THEN chainFile' \in WriteFile(chainFile, io2, chain)
               ELSE chainFile' = chainFile
            /\ pc' = next
            /\ exitcode' = IF next = "done" THEN 0
                           ELSE IF ~WriteOk(io1, cert) THEN FailStatus(io1)
                           ELSE FailStatus(io2)
    /\ UNCHANGED <<creds, now, cache, token, bearers, tokenReqs, validateReqs,
                   dnsDataReqs, orderReqs, lookups, tick, interrupts,
                   validated, txt_value, found, accurate, dns_answers,
                   mismatchObserved, cert_output>>

\* a KeyboardInterrupt (Ctrl-C) that nothing catches, raised before the
\* stage at pc has had any effect: anywhere outside the try of lines
\* 215-233, in particular in the waits of line 212 and of line 238 (inside
\* the handler), after the for loop in lines 214 and 240-245, and in the
\* stages whose handlers are "except Exception".  The traceback is printed
\* and the process ends by SIGINT
SigInt ==
    /\ pc \notin {"found", "exit", "done"}
    /\ pc' = "exit"
    /\ exitcode' = -2
    /\ UNCHANGED <<creds, now, cache, token, bearers, tokenReqs, validateReqs,
                   dnsDataReqs, orderReqs, lookups, tick, interrupts,
                   validated, txt_value, found, accurate, dns_answers,
                   mismatchObserved, cert_output, certFile, chainFile>>

Next ==
    \/ Startup
    \/ TokenFromCache
    \/ TokenAcquire
    \/ CcValidateName
    \/ CcGetDnsData
    \/ PressEnter
    \/ DnsLookupRaises
    \/ DnsLookupAnswers
    \/ DnsCompare
    \/ VerifyReturn
    \/ DnsInterrupted
    \/ CcRequestCert
    \/ DumpCert
    \/ SigInt

Spec == Init /\ [][Next]_vars

\* The interpreter keeps running the script: while a step is possible one
\* is taken.  Nothing is assumed of the resolver or of the user
LiveSpec == Spec /\ WF_vars(Next)

----------------------------------------------------------------------------
(* Properties *)

\* some record of the last answer equals the quoted challenge
AnyRecordMatches == AnswerMatches(dns_answers, txt_value)

\* C1: when token_handling runs (and the process is not ended by a signal)
\* with a cached token whose expires_at is greater than now + 30, it returns
\* the cached access_token, sends nothing to the token endpoint and leaves
\* token.json as it is.
C1_TokenReuse ==
    [][(pc = "token" /\ cache.kind = "record" /\ cache.access_token # Missing
            /\ cache.expires_at > now + Grace /\ exitcode' # -2)
        => (pc' = "validate" /\ token' = cache.access_token
            /\ tokenReqs' = tokenReqs /\ cache' = cache)]_vars

C1_Witness ==
    /\ pc = "validate"
    /\ cache.kind = "record"
    /\ cache.expires_at = now + Grace + 1
    /\ token = cache.access_token
    /\ tokenReqs = 0

\* C2: every token sent to a CA call is a cached token whose expiry exceeded
\* now + 30 when it was read, or a token newly acquired from the token
\* endpoint (which is then the one in token.json); never None.
C2_TokenNeverExpired ==
    \A b \in bearers :
        /\ b # None
        /\ cache.kind = "record"
        /\ b = cache.access_token
        /\ (tokenReqs = 1 \/ cache.expires_at > now + Grace)

\* C3: once a lookup has returned an answer none of whose records equals
\* the quoted challenge value, no Order request is sent and the run does not
\* end with success.
C3_MismatchStops ==
    mismatchObserved => orderReqs = 0 /\ exitcode # 0

\* C4 as stated: after dump_cert the certificate file holds exactly C and the
\* chained file holds C followed by I with nothing else added.
C4_RoundTripOriginal ==
    pc = "done" =>
        /\ certFile.exists /\ certFile.data = cert_output.signed_cert
        /\ chainFile.exists
        /\ chainFile.data = cert_output.signed_cert \o cert_output.intermediate

\* C4 amended: after dump_cert the certificate file holds exactly C and the
\* chained file holds C, one newline, then I.
C4_RoundTripAmended ==
    pc = "done" =>
        /\ certFile.exists /\ certFile.data = cert_output.signed_cert
        /\ chainFile.exists
        /\ chainFile.data =
              cert_output.signed_cert \o <<LF>> \o cert_output.intermediate

C4_Witness ==
    /\ pc = "done"
    /\ cert_output.ok
    /\ cert_output.signed_cert # cert_output.intermediate
    /\ chainFile.writes = 1

\* C5: a run that got past the command line ends with status 0 only if
\* every stage succeeded: a token was
\* obtained, the domain qualified, the challenge was fetched, the DNS record
\* matched, the Order succeeded and both files were written.
C5_ExitZeroOnlyOnSuccess ==
    pc = "done" /\ exitcode = 0 =>
        /\ token # None
        /\ validated
        /\ txt_value # NoText
        /\ found /\ accurate
        /\ cert_output.ok
        /\ certFile.writes = 1 /\ chainFile.writes = 1

\* C6: the token endpoint, ValidateName, DNSData and Order are each requested
\* at most once in a run.
C6_NoRetry ==
    /\ tokenReqs <= 1
    /\ validateReqs <= 1
    /\ dnsDataReqs <= 1
    /\ orderReqs <= 1

C6_Witness ==
    /\ lookups >= 2
    /\ tokenReqs = 1
    /\ validateReqs = 1
    /\ dnsDataReqs = 1
    /\ orderReqs = 1

\* C7: once a lookup has returned an answer no further lookup is issued and
\* the script does not go back to polling; on a mismatch the program stops
\* with a failure.
C7_PollStopsAtFirstAnswer ==
    [][/\ (dns_answers # <<>> => lookups' = lookups /\ pc' # "verify")
       /\ (pc = "found" /\ ~AnyRecordMatches => pc' = "compared")
       /\ (pc = "compared" /\ ~AnyRecordMatches
              => pc' = "exit" /\ exitcode' \in {1, -2})]_vars

\* C8: once a lookup has returned a record, verify_dns_record eventually
\* terminates: it returns True (the Order stage is reached) or the process
\* exits.
C8_PollTerminates ==
    (pc = "found") ~> (pc \in {"order", "exit"})

\* C9: each stage starts only after the previous one succeeded: ValidateName
\* after a token was obtained, DNSData after the domain qualified, the DNS
\* lookups after the challenge was fetched, Order after the record matched,
\* and no PEM file is written unless Order returned success.
C9_StageOrder ==
    /\ (validateReqs > 0 => token # None)
    /\ (dnsDataReqs > 0 => validated)
    /\ (lookups > 0 => txt_value # NoText)
    /\ (orderReqs > 0 => found /\ accurate)
    /\ (certFile.writes > 0 \/ chainFile.writes > 0 => cert_output.ok)
    /\ (chainFile.writes > 0 => certFile.writes > 0)

\* C10: verify_dns_record succeeds if and only if at least one record of the
\* answer equals the quoted challenge value, whatever the order of records.
C10_OrderIndependent ==
    found /\ pc # "found" => (accurate <=> AnyRecordMatches)

====
